---- MODULE Spec2Model ----
(***************************************************************************)
(* amqpx: the self-healing channel supervisor (Amqpx, src/amqpd.go lines   *)
(* 11-111) and the multi-queue consumer supervisor (AmqpxConsumer,         *)
(* src/amqpd.go lines 126-271), as one state machine.                      *)
(*                                                                         *)
(* Goroutines are modelled by program counters: the re-dial task           *)
(* (redialPc), one consumption loop per launched binding (loops[l].pc) and *)
(* one shutdown task per Stop call (stops[s].pc).  The broker and the      *)
(* amqp091 library are the environment: a channel is "open", "closing"     *)
(* (an abnormal shutdown has notified its listeners, IsClosed() is still   *)
(* false) or "closed".                                                     *)
(***************************************************************************)
EXTENDS FiniteSets, Integers, Sequences, TLC

\* ------------------------------------------------------------- bounds
\* channels this supervisor opens, the constructor's included
MaxChannels == 3
\* AddFunc calls
MaxEntries == 2
\* consumption loops ever launched
MaxLoops == 2
\* Stop calls
MaxStops == 2
\* channels opened during one documented lifecycle of a consumer supervisor
MaxLifecycleChannels == 2

\* the bindings of one program, in the order it registers them: the
\* arguments of its successive AddFunc calls
Scenario == <<<<"orders", "w1">>, <<"events", "w2">>>>
\* consumer labels, one of which ends like an identity does
Labels == {"w", "w-1"}
\* queue names
Queues == {"orders", "events"}
\* what a handler invocation does: return nil, return an error, panic
Outcomes == {"ok", "err", "panic"}
\* channel-scoped operations a caller of Amqpx may issue directly
Ops == {"ExchangeDeclare", "QueueDeclare", "QueueBind", "Publish", "Consume",
        "Cancel"}

VARIABLES
    connLive,     \* Connection != nil && !Connection.IsClosed()
    chStatus,     \* status of every channel this supervisor opened, by id
    channel,      \* Amqpx.channel: a channel id, 0 for nil
    redialPc,     \* position of the re-dial goroutine
    consumerSeq,  \* package variable consumerSeq
    entries,      \* AmqpxConsumer.entries: identity -> queue
    running,      \* AmqpxConsumer.running
    jobWaiter,    \* AmqpxConsumer.jobWaiter counter
    loops,        \* goroutines launched by Start
    stops,        \* shutdown goroutines launched by Stop, with their contexts
    opObs,        \* what the last channel-scoped operation ran against
    runningMu,    \* AmqpxConsumer.runningMu: who holds it, "free" if nobody
    started       \* history: Start has been called

vars == <<connLive, chStatus, channel, redialPc, consumerSeq, entries, running,
          jobWaiter, loops, stops, opObs, runningMu, started>>

\* ------------------------------------------------------------ helpers
\* an operation called on channel handle c goes through to the broker: the
\* handle is not nil and the channel has not begun to shut down.  A channel
\* that the broker or the connection closes is "closing" first (its
\* NotifyClose listeners are notified, its delivery chans are closed and its
\* operations fail while IsClosed() is still false) and "closed" after.
IsOpen(c) == c # 0 /\ chStatus[c] = "open"

\* Channel.IsClosed()
IsClosed(st, c) == st[c] = "closed"

\* A variant of Identity without the sequence suffix.
IdentityLabelOnly(consumer, seq) == consumer

\* consumer + "-" + strconv.FormatUint(seq, 10)
Identity(consumer, seq) == consumer \o "-" \o ToString(seq)

\* Close has been called: a caller is at line 83 or past it
CloseCalled ==
    \E s \in DOMAIN stops : stops[s].pc \in {"send", "chclose", "cancelctx", "done"}

\* Close has returned to a caller
CloseReturned ==
    \E s \in DOMAIN stops : stops[s].pc \in {"cancelctx", "done"}

\* what a channel-scoped operation observes when it reads the channel
\* field: the channel it runs against and that channel's status, with the
\* newest channel the supervisor has opened and whether Close was called
Observe(op) ==
    [op |-> op,
     ch |-> channel,
     st |-> IF channel = 0 THEN "nil" ELSE chStatus[channel],
     newest |-> Len(chStatus),
     closeCalled |-> CloseCalled]

\* every delivery stream of channel c ends (the deliveries chan is closed)
EndStreams(ls, c) ==
    [l \in DOMAIN ls |->
        IF ls[l].stream = "open" /\ ls[l].ch = c
        THEN [ls[l] EXCEPT !.stream = "ended"]
        ELSE ls[l]]

\* the delivery stream of consumer csr on channel c ends
EndConsumer(ls, c, csr) ==
    [l \in DOMAIN ls |->
        IF ls[l].stream = "open" /\ ls[l].ch = c /\ ls[l].csr = csr
        THEN [ls[l] EXCEPT !.stream = "ended"]
        ELSE ls[l]]

\* ---------------------------------------------------------------- Init
\* NewAmqpxConsumer has returned: New opened the first channel and started
\* the re-dial goroutine; the registry is empty and running is false.
Init ==
    /\ connLive = TRUE
    /\ chStatus = <<"open">>
    /\ channel = 1
    /\ redialPc = "wait"
    /\ consumerSeq = 0
    /\ entries = [id \in {} |-> "none"]
    /\ running = FALSE
    /\ jobWaiter = 0
    /\ loops = <<>>
    /\ stops = <<>>
    /\ opObs = [op |-> "none", ch |-> 0, st |-> "none", newest |-> 0,
                closeCalled |-> FALSE]
    /\ runningMu = "free"
    /\ started = FALSE

\* --------------------------------------------------- Amqpx (the channel)
\* initChannel, lines 30-35: Init() is called when Connection is nil or
\* closed, and initOk says whether it succeeds.  Returns the error flag, the
\* connection's liveness and whether Init() was called.
initConnection(conn, initOk) ==
    [err |-> ~conn /\ ~initOk, conn |-> conn \/ initOk, dialed |-> ~conn]

\* A variant of closePrevious without lines 36-38: the previous channel is
\* left as it is.
ClosePreviousSkipped(ch, st) == st

\* initChannel, lines 36-38: the channel the field holds is closed unless it
\* is nil or IsClosed() already.  Returns the channels' status.
closePrevious(ch, st) ==
    IF ch # 0 /\ ~IsClosed(st, ch) THEN [st EXCEPT ![ch] = "closed"] ELSE st

\* initChannel, lines 40-43: Connection.Channel(), and openOk says whether
\* it succeeds.  Returns the error flag and the channels' status; the
\* channel opened is the last one.
openChannel(st, openOk) ==
    [err |-> ~openOk, st |-> IF openOk THEN Append(st, "open") ELSE st]

\* initChannel, lines 29-46, run from its first line to its last with no
\* step of another goroutine in between.  Returns the error flag, the new
\* values of channel, the channels' status and the connection's liveness,
\* and whether Init() was called.
initChannel(ch, st, conn, initOk, openOk) ==
    LET c == initConnection(conn, initOk)
        st1 == closePrevious(ch, st)
        o == openChannel(st1, openOk)
    IN  IF c.err
        THEN \* line 33
             [err |-> TRUE, ch |-> ch, st |-> st, conn |-> c.conn,
              dialed |-> c.dialed]
        ELSE IF o.err
        THEN \* line 42: the field keeps the previous channel
             [err |-> TRUE, ch |-> ch, st |-> st1, conn |-> c.conn,
              dialed |-> c.dialed]
        ELSE \* line 44
             [err |-> FALSE, ch |-> Len(o.st), st |-> o.st, conn |-> c.conn,
              dialed |-> c.dialed]

\* a Close caller is blocked on `ad.stop <- struct{}{}` (line 83)
StopSenderReady == \E s \in DOMAIN stops : stops[s].pc = "send"

\* A variant of RedialNotified without the outer `for` of line 50: the
\* first closure is answered by a re-dial, and the task ends at the closure
\* of a channel it has installed itself.
RedialNotifiedOnce ==
    /\ redialPc = "wait"
    /\ ~IsOpen(channel)
    /\ redialPc' = IF channel = 1 THEN "retry" ELSE "done"
    /\ UNCHANGED <<connLive, chStatus, channel, consumerSeq, entries,
                   running, jobWaiter, loops, stops, opObs,
                   runningMu, started>>

\* redial, line 55: the close notification of the current channel arrives
\* (NotifyClose on a channel already shut down yields a closed chan, which
\* is received from at once)
RedialNotified ==
    /\ redialPc = "wait"
    /\ ~IsOpen(channel)
    /\ redialPc' = "retry"
    /\ UNCHANGED <<connLive, chStatus, channel, consumerSeq, entries,
                   running, jobWaiter, loops, stops, opObs,
                   runningMu, started>>

\* redial, lines 58-62: the select's default branch, taken when no sender
\* is waiting on ad.stop
RedialDefault ==
    /\ redialPc = "retry"
    /\ ~StopSenderReady
    /\ redialPc' = "init"
    /\ UNCHANGED <<connLive, chStatus, channel, consumerSeq, entries,
                   running, jobWaiter, loops, stops, opObs,
                   runningMu, started>>

\* redial, line 64, in initChannel at lines 30-35: the connection is
\* re-established if it is down; on an error initChannel returns, and redial
\* sleeps 10 s and goes round again (lines 65-67)
RedialInit ==
    /\ redialPc = "init"
    /\ \E initOk \in BOOLEAN :
         LET r == initConnection(connLive, initOk)
         IN  /\ connLive' = r.conn
             /\ redialPc' = IF r.err THEN "retry" ELSE "close"
    /\ UNCHANGED <<chStatus, channel, consumerSeq, entries, running,
                   jobWaiter, loops, stops, opObs, runningMu, started>>

\* redial in initChannel at lines 36-38: the previous channel is closed, and
\* its delivery streams end
RedialClosePrevious ==
    /\ redialPc = "close"
    /\ chStatus' = closePrevious(channel, chStatus)
    /\ loops' = IF chStatus' # chStatus THEN EndStreams(loops, channel)
                                        ELSE loops
    /\ redialPc' = "open"
    /\ UNCHANGED <<connLive, channel, consumerSeq, entries, running,
                   jobWaiter, stops, opObs, runningMu, started>>

\* A variant of RedialOpen that clears the channel field when the channel
\* cannot be opened.
RedialOpenNilOnError ==
    /\ redialPc = "open"
    /\ \E openOk \in BOOLEAN :
         /\ openOk => connLive /\ Len(chStatus) < MaxChannels
         /\ LET r == openChannel(chStatus, openOk)
            IN  /\ chStatus' = r.st
                /\ channel' = IF r.err THEN 0 ELSE channel
                /\ redialPc' = IF r.err THEN "retry" ELSE "assign"
    /\ UNCHANGED <<connLive, consumerSeq, entries, running, jobWaiter,
                   loops, stops, opObs, runningMu, started>>

\* redial in initChannel at lines 40-43: a channel is opened on the
\* connection, which has to be up for that; on an error initChannel returns,
\* and redial sleeps 10 s and goes round again (lines 65-67)
RedialOpen ==
    /\ redialPc = "open"
    /\ \E openOk \in BOOLEAN :
         /\ openOk => connLive /\ Len(chStatus) < MaxChannels
         /\ LET r == openChannel(chStatus, openOk)
            IN  /\ chStatus' = r.st
                /\ redialPc' = IF r.err THEN "retry" ELSE "assign"
    /\ UNCHANGED <<connLive, channel, consumerSeq, entries, running,
                   jobWaiter, loops, stops, opObs, runningMu, started>>

\* redial in initChannel at line 44: the channel just opened, the last one,
\* is stored in the field (no lock is taken); initChannel returns nil and
\* redial goes back to its select (lines 69-70)
RedialAssign ==
    /\ redialPc = "assign"
    /\ channel' = Len(chStatus)
    /\ redialPc' = "wait"
    /\ UNCHANGED <<connLive, chStatus, consumerSeq, entries, running,
                   jobWaiter, loops, stops, opObs, runningMu, started>>

\* A variant of CloseSignal in which the receive of line 59 only leaves the
\* inner select (`break` instead of `return`), so that the attempt goes on.
CloseSignalBreaksSelect(s) ==
    /\ stops[s].pc = "send"
    /\ redialPc \in {"wait", "retry"}
    /\ redialPc' = IF redialPc = "retry" THEN "init" ELSE "done"
    /\ stops' = [stops EXCEPT ![s].pc = "chclose"]
    /\ UNCHANGED <<connLive, chStatus, channel, consumerSeq, entries,
                   running, jobWaiter, loops, opObs, runningMu,
                   started>>

\* A variant of CloseSignal in which the send does not wait for a receiver
\* (a send on a buffered chan, or in a select with a default).
CloseSignalNeverBlocks(s) ==
    /\ stops[s].pc = "send"
    /\ redialPc' = IF redialPc \in {"wait", "retry"} THEN "done" ELSE redialPc
    /\ stops' = [stops EXCEPT ![s].pc = "chclose"]
    /\ UNCHANGED <<connLive, chStatus, channel, consumerSeq, entries,
                   running, jobWaiter, loops, opObs, runningMu,
                   started>>

\* Close, line 83, meeting redial's `case <-ad.stop: return` (line 53 in
\* the outer wait, line 59 in the retry loop): the unbuffered send and the
\* receive are one step
CloseSignal(s) ==
    /\ stops[s].pc = "send"
    /\ redialPc \in {"wait", "retry"}
    /\ redialPc' = "done"
    /\ stops' = [stops EXCEPT ![s].pc = "chclose"]
    /\ UNCHANGED <<connLive, chStatus, channel, consumerSeq, entries,
                   running, jobWaiter, loops, opObs, runningMu,
                   started>>

\* Close, line 84: ad.channel.Close()
CloseChannel(s) ==
    /\ stops[s].pc = "chclose"
    /\ chStatus' = IF channel # 0
                   THEN [chStatus EXCEPT ![channel] = "closed"] ELSE chStatus
    /\ loops' = EndStreams(loops, channel)
    /\ stops' = [stops EXCEPT ![s].pc = "cancelctx"]
    /\ UNCHANGED <<connLive, channel, redialPc, consumerSeq, entries,
                   running, jobWaiter, opObs, runningMu, started>>

\* A variant of PublicOp in which an operation that finds the channel
\* unusable opens a new one itself before it runs.
PublicOpReopens(op) ==
    /\ IF ~IsOpen(channel) /\ Len(chStatus) < MaxChannels
       THEN LET r == initChannel(channel, chStatus, connLive, TRUE, TRUE)
            IN  /\ channel' = r.ch
                /\ chStatus' = r.st
                /\ connLive' = r.conn
                /\ opObs' = [Observe(op) EXCEPT !.ch = r.ch, !.st = "open",
                                                !.newest = r.ch]
       ELSE /\ opObs' = Observe(op)
            /\ UNCHANGED <<connLive, chStatus, channel>>
    /\ UNCHANGED <<redialPc, consumerSeq, entries, running, jobWaiter,
                   loops, stops, runningMu, started>>

\* Cancel, ExchangeDeclare, Publish, QueueDeclare, QueueBind, Consume
\* (lines 77-79 and 88-111) called on the supervisor: each delegates to the
\* channel the field holds when it is read
PublicOp(op) ==
    /\ opObs' = Observe(op)
    /\ UNCHANGED <<connLive, chStatus, channel, redialPc, consumerSeq,
                   entries, running, jobWaiter, loops, stops,
                   runningMu, started>>

\* ------------------------------------------- the broker and the library
\* the broker (or the network) closes the supervisor's channel: its
\* listeners are notified and its delivery streams end
BrokerClosesChannel ==
    /\ IsOpen(channel)
    /\ chStatus' = [chStatus EXCEPT ![channel] = "closing"]
    /\ loops' = EndStreams(loops, channel)
    /\ UNCHANGED <<connLive, channel, redialPc, consumerSeq, entries,
                   running, jobWaiter, stops, opObs, runningMu,
                   started>>

\* the shared connection is lost, and its channels with it
ConnectionLost ==
    /\ connLive
    /\ connLive' = FALSE
    /\ chStatus' = [c \in DOMAIN chStatus |->
                      IF chStatus[c] = "open" THEN "closing" ELSE chStatus[c]]
    /\ loops' = IF IsOpen(channel) THEN EndStreams(loops, channel) ELSE loops
    /\ UNCHANGED <<channel, redialPc, consumerSeq, entries, running,
                   jobWaiter, stops, opObs, runningMu, started>>

\* the library finishes an abnormal shutdown: IsClosed() becomes true
ShutdownCompletes ==
    /\ \E c \in DOMAIN chStatus :
         /\ chStatus[c] = "closing"
         /\ chStatus' = [chStatus EXCEPT ![c] = "closed"]
    /\ UNCHANGED <<connLive, channel, redialPc, consumerSeq, entries,
                   running, jobWaiter, loops, stops, opObs,
                   runningMu, started>>

\* ------------------------------------------ AmqpxConsumer (the consumers)
\* the callers that take runningMu
Callers == {"AddFunc", "Start", "Stop"}

\* ac.runningMu.Lock(), lines 158, 172 and 251: caller c gets the mutex
Lock(c) ==
    /\ runningMu = "free"
    /\ runningMu' = c
    /\ UNCHANGED <<connLive, chStatus, channel, redialPc, consumerSeq,
                   entries, running, jobWaiter, loops, stops, opObs,
                   started>>

\* AddFunc, lines 161-167: what it does holding runningMu
AddFuncLocked(queue, consumer) ==
    /\ consumerSeq < MaxEntries
    /\ consumerSeq' = consumerSeq + 1
    /\ LET id == Identity(consumer, consumerSeq + 1)
       IN  entries' = [k \in DOMAIN entries \cup {id} |->
                          IF k = id THEN queue ELSE entries[k]]
    /\ UNCHANGED <<connLive, chStatus, channel, redialPc, running,
                   jobWaiter, loops, stops, opObs, started>>

\* AddFunc, lines 157-168, as one step: Lock, the body, the deferred Unlock
AddFunc(queue, consumer) ==
    /\ runningMu = "free"
    /\ AddFuncLocked(queue, consumer)
    /\ UNCHANGED runningMu

\* AddFunc, lines 161-168, by the caller that holds the mutex: the body
\* and the deferred Unlock
AddFuncReturns(queue, consumer) ==
    /\ runningMu = "AddFunc"
    /\ AddFuncLocked(queue, consumer)
    /\ runningMu' = "free"

\* AddFunc called on another AmqpxConsumer of the process: consumerSeq is a
\* package variable, its registry is its own
OtherAddFunc ==
    /\ consumerSeq < MaxEntries
    /\ consumerSeq' = consumerSeq + 1
    /\ UNCHANGED <<connLive, chStatus, channel, redialPc, entries,
                   running, jobWaiter, loops, stops, opObs,
                   runningMu, started>>

\* no delivery yet
NoDelivery == [outcome |-> "none", acks |-> 0, rejects |-> 0]

\* the goroutines `range ac.entries` launches, lines 180-187; the order in
\* which a map is ranged over is not observable in what they do.  dely is
\* the loop variable of line 214: the delivery last received.
RECURSIVE LaunchAll(_, _)
LaunchAll(es, ids) ==
    IF ids = {} THEN <<>>
    ELSE LET k == CHOOSE k \in ids : TRUE
         IN  <<[csr |-> k, queue |-> es[k], pc |-> "check",
                stream |-> "none", ch |-> 0, dely |-> NoDelivery]>>
             \o LaunchAll(es, ids \ {k})

\* A variant of StartBody without the check of lines 175-177.
StartNoRunningCheck(run, jw, ls, es) ==
    [running |-> TRUE,
     jobWaiter |-> jw + Cardinality(DOMAIN es),
     loops |-> ls \o LaunchAll(es, DOMAIN es)]

\* Start's body once it holds runningMu, lines 175-187: the new values of
\* running, jobWaiter and the loops
StartBody(run, jw, ls, es) ==
    IF run
    THEN \* lines 175-177
         [running |-> run, jobWaiter |-> jw, loops |-> ls]
    ELSE [running |-> TRUE,
          jobWaiter |-> jw + Cardinality(DOMAIN es),
          loops |-> ls \o LaunchAll(es, DOMAIN es)]

\* Start, lines 175-188: what it does holding runningMu
StartLocked ==
    /\ LET r == StartBody(running, jobWaiter, loops, entries)
       IN  /\ Len(r.loops) <= MaxLoops
           /\ running' = r.running
           /\ jobWaiter' = r.jobWaiter
           /\ loops' = r.loops
    /\ started' = TRUE
    /\ UNCHANGED <<connLive, chStatus, channel, redialPc, consumerSeq,
                   entries, stops, opObs>>

\* Start, lines 171-189, as one step: Lock, the body, the deferred Unlock
Start ==
    /\ runningMu = "free"
    /\ StartLocked
    /\ UNCHANGED runningMu

\* Start, lines 175-189, by the caller that holds the mutex: the body and
\* the deferred Unlock
StartReturns ==
    /\ runningMu = "Start"
    /\ StartLocked
    /\ runningMu' = "free"

\* jobWaiter.Done(), line 184, seen from the shutdown goroutines blocked in
\* Wait (line 266): the Done that brings the counter to jw = 0 releases
\* every one of them
Released(ss, jw) ==
    [s \in DOMAIN ss |->
        IF jw = 0 /\ ss[s].pc = "waiting"
        THEN [ss[s] EXCEPT !.pc = "released"]
        ELSE ss[s]]

\* the goroutine's exit: `defer ac.jobWaiter.Done()`, line 184
LoopExit(l) ==
    /\ loops' = [loops EXCEPT ![l].pc = "done"]
    /\ jobWaiter' = jobWaiter - 1

\* run, line 193: `for ac.running`
RunCheck(l) ==
    /\ loops[l].pc = "check"
    /\ IF running
       THEN loops' = [loops EXCEPT ![l].pc = "consume"] /\ UNCHANGED jobWaiter
       ELSE LoopExit(l)
    /\ stops' = Released(stops, jobWaiter')
    /\ UNCHANGED <<connLive, chStatus, channel, redialPc, consumerSeq,
                   entries, running, opObs, runningMu, started>>

\* A variant of Consume in which a failed Consume makes run return.
ConsumeErrorEndsRun(l) ==
    /\ loops[l].pc = "consume"
    /\ IF IsOpen(channel)
       THEN /\ loops' = [loops EXCEPT ![l].pc = "recv", ![l].stream = "open",
                                      ![l].ch = channel]
            /\ UNCHANGED jobWaiter
       ELSE /\ loops' = [loops EXCEPT ![l].pc = "done"]
            /\ jobWaiter' = jobWaiter - 1
    /\ stops' = Released(stops, jobWaiter')
    /\ UNCHANGED <<connLive, chStatus, channel, redialPc, consumerSeq,
                   entries, running, opObs, runningMu, started>>

\* some other loop is subscribed on channel c under the consumer tag csr
TagInUse(l, c, csr) ==
    \E m \in DOMAIN loops :
        m # l /\ loops[m].stream = "open" /\ loops[m].ch = c /\ loops[m].csr = csr

\* consume, lines 210-213: ac.cli.Consume on the channel the field holds.
\* On a channel that is not open the call fails, and run sleeps 15 s and
\* goes back to line 193 (lines 195-198).  A consumer tag that is in use on
\* the channel is refused by the broker with the hard error not-allowed: the
\* connection goes down, every stream ends, and the call fails.
Consume(l) ==
    /\ loops[l].pc = "consume"
    /\ IF IsOpen(channel) /\ ~TagInUse(l, channel, loops[l].csr)
       THEN /\ loops' = [loops EXCEPT ![l].pc = "recv", ![l].stream = "open",
                                      ![l].ch = channel]
            /\ UNCHANGED <<connLive, chStatus>>
       ELSE IF IsOpen(channel)
       THEN /\ connLive' = FALSE
            /\ chStatus' = [c \in DOMAIN chStatus |->
                              IF chStatus[c] = "open" THEN "closing"
                                                      ELSE chStatus[c]]
            /\ loops' = [EndStreams(loops, channel) EXCEPT ![l].pc = "check"]
       ELSE /\ loops' = [loops EXCEPT ![l].pc = "check"]
            /\ UNCHANGED <<connLive, chStatus>>
    /\ UNCHANGED <<channel, redialPc, consumerSeq, entries, running,
                   jobWaiter, stops, opObs, runningMu, started>>

\* consume, line 214-215: a delivery arrives on the stream and the handler
\* is invoked on it
Deliver(l) ==
    /\ loops[l].pc = "recv"
    /\ loops[l].stream = "open"
    /\ loops' = [loops EXCEPT ![l].pc = "handling",
                               ![l].dely = [outcome |-> "running", acks |-> 0,
                                            rejects |-> 0]]
    /\ UNCHANGED <<connLive, chStatus, channel, redialPc, consumerSeq,
                   entries, running, jobWaiter, stops, opObs, runningMu,
                   started>>

\* A variant of runWithRecovery without the deferred recover().
RunWithoutRecovery(o) ==
    CASE o = "ok" -> "nil"
      [] o = "err" -> "err"
      [] o = "panic" -> "crash"

\* runWithRecovery, lines 226-236, on a handler that does `o`: what the
\* caller gets.  The function has an unnamed result, so after the deferred
\* recover() it returns the zero value, nil.  "crash" is a panic that
\* leaves the goroutine.
runWithRecovery(o) ==
    CASE o = "ok" -> "nil"
      [] o = "err" -> "err"
      [] o = "panic" -> "nil"

\* A variant of Disposition without the `continue` of line 218: the Ack of
\* line 220 follows the Reject.
DispositionNoContinue(r) ==
    IF r = "err" THEN [acks |-> 1, rejects |-> 1]
                 ELSE [acks |-> 1, rejects |-> 0]

\* consume, lines 216-220: the calls made on the delivery for result r
Disposition(r) ==
    IF r = "err" THEN [acks |-> 0, rejects |-> 1]
                 ELSE [acks |-> 1, rejects |-> 0]

\* consume, lines 215-221: the handler finishes and the delivery is
\* acknowledged or rejected; a panic that leaves the goroutine ends the
\* process, every loop with it
HandlerReturns(l, o) ==
    /\ loops[l].pc = "handling"
    /\ LET r == runWithRecovery(o)
       IN  IF r = "crash"
           THEN loops' = [k \in DOMAIN loops |->
                            [loops[k] EXCEPT !.pc = "crashed"]]
           ELSE loops' = [loops EXCEPT
                            ![l].pc = "recv",
                            ![l].dely = [outcome |-> o,
                                         acks |-> Disposition(r).acks,
                                         rejects |-> Disposition(r).rejects]]
    /\ UNCHANGED <<connLive, chStatus, channel, redialPc, consumerSeq,
                   entries, running, jobWaiter, stops, opObs,
                   runningMu, started>>

\* A variant of StreamEnds in which run returns when consume does, whatever
\* the flag says.
StreamEndsRunReturns(l) ==
    /\ loops[l].pc = "recv"
    /\ loops[l].stream = "ended"
    /\ loops' = [loops EXCEPT ![l].stream = "none", ![l].ch = 0,
                               ![l].dely = NoDelivery, ![l].pc = "done"]
    /\ jobWaiter' = jobWaiter - 1
    /\ stops' = Released(stops, jobWaiter')
    /\ UNCHANGED <<connLive, chStatus, channel, redialPc, consumerSeq,
                   entries, running, opObs, runningMu, started>>

\* consume, lines 214 and 222: the stream has ended, consume returns nil
\* (the delivery variable is gone with the range); run, lines 200-203:
\* leave if the flag is down, else sleep 15 s and go back to line 193
StreamEnds(l) ==
    /\ loops[l].pc = "recv"
    /\ loops[l].stream = "ended"
    /\ LET ls == [loops EXCEPT ![l].stream = "none", ![l].ch = 0,
                               ![l].dely = NoDelivery]
       IN  IF ~running
           THEN /\ loops' = [ls EXCEPT ![l].pc = "done"]
                /\ jobWaiter' = jobWaiter - 1
           ELSE /\ loops' = [ls EXCEPT ![l].pc = "check"]
                /\ UNCHANGED jobWaiter
    /\ stops' = Released(stops, jobWaiter')
    /\ UNCHANGED <<connLive, chStatus, channel, redialPc, consumerSeq,
                   entries, running, opObs, runningMu, started>>

\* Stop, lines 254-270: what it does holding runningMu: the flag, the
\* context and the shutdown goroutine.  The context is canceled when the goroutine is "done".
StopLocked ==
    /\ Len(stops) < MaxStops
    /\ running' = FALSE
    /\ stops' = Append(stops, [pc |-> "cancel", todo |-> {}, keys |-> {}])
    /\ UNCHANGED <<connLive, chStatus, channel, redialPc, consumerSeq,
                   entries, jobWaiter, loops, opObs, started>>

\* Stop, lines 250-271, as one step: Lock, the body, the deferred Unlock
Stop ==
    /\ runningMu = "free"
    /\ StopLocked
    /\ UNCHANGED runningMu

\* Stop, lines 254-271, by the caller that holds the mutex: the body and
\* the deferred Unlock
StopReturns ==
    /\ runningMu = "Stop"
    /\ StopLocked
    /\ runningMu' = "free"

\* Amqpx.Cancel, lines 77-79, for consumer k: on an open channel the
\* consumer's stream ends; otherwise Cancel fails
Cancel(ls, k) ==
    IF IsOpen(channel) THEN EndConsumer(ls, channel, k) ELSE ls

\* the shutdown goroutine, lines 263-265: one turn of the range over
\* ac.entries, ac.cli.Cancel(csr) for a key not yet visited (the error is
\* dropped), or the end of the range.  The keys come in any order; todo is
\* the registry as it is when the range begins, every key of which is
\* visited, while a key added during the range is visited or not.  The
\* turn that visits the last key ends the range, and so does the first
\* turn on an empty registry.
StopCancels(s) ==
    /\ stops[s].pc \in {"cancel", "range"}
    /\ LET todo == IF stops[s].pc = "cancel" THEN DOMAIN entries
                                              ELSE stops[s].todo
       IN  IF todo = {}
           THEN /\ stops' = [stops EXCEPT ![s].pc = "wait"]
                /\ UNCHANGED loops
           ELSE \E k \in (todo \cup DOMAIN entries) \ stops[s].keys :
                  LET ks == stops[s].keys \cup {k}
                  IN  /\ loops' = Cancel(loops, k)
                      /\ \E pc \in {"range", "wait"} :
                           /\ pc = "wait" => todo \subseteq ks
                           /\ pc = "range" => ~(DOMAIN entries \subseteq ks)
                           /\ stops' = [stops EXCEPT ![s].pc = pc,
                                                     ![s].todo = todo,
                                                     ![s].keys = ks]
    /\ UNCHANGED <<connLive, chStatus, channel, redialPc, consumerSeq,
                   entries, running, jobWaiter, opObs, runningMu,
                   started>>

\* the shutdown goroutine, lines 263-265, ranging over ac.entries while an
\* AddFunc caller is writing the map (the goroutine does not take
\* runningMu): besides ranging over the map as it is before or after the
\* write, which StopCancels does, the Go runtime may stop the process with
\* "concurrent map iteration and map write", every goroutine and every
\* caller with it
StopRangeFatal(s) ==
    /\ stops[s].pc \in {"cancel", "range"}
    /\ runningMu = "AddFunc"
    /\ stops' = [t \in DOMAIN stops |-> [stops[t] EXCEPT !.pc = "crashed"]]
    /\ loops' = [l \in DOMAIN loops |-> [loops[l] EXCEPT !.pc = "crashed"]]
    /\ redialPc' = "crashed"
    /\ runningMu' = "crashed"
    /\ UNCHANGED <<connLive, chStatus, channel, consumerSeq, entries,
                   running, jobWaiter, opObs, started>>

\* AddFunc taken as one step (lines 157-168) while shutdown goroutine s is
\* at or inside its range over ac.entries (lines 263-265): the write of line
\* 163 and a turn of the range overlap, and besides the two outcomes in
\* which the range sees the map before or after the write (AddFunc and
\* StopCancels in either order), the Go runtime may stop the process with
\* "concurrent map iteration and map write"
AddFuncRangeFatal(s) ==
    /\ stops[s].pc \in {"cancel", "range"}
    /\ runningMu = "free"
    /\ consumerSeq < MaxEntries
    /\ stops' = [t \in DOMAIN stops |-> [stops[t] EXCEPT !.pc = "crashed"]]
    /\ loops' = [l \in DOMAIN loops |-> [loops[l] EXCEPT !.pc = "crashed"]]
    /\ redialPc' = "crashed"
    /\ runningMu' = "crashed"
    /\ UNCHANGED <<connLive, chStatus, channel, consumerSeq, entries,
                   running, jobWaiter, opObs, started>>

\* line 266: ac.jobWaiter.Wait() is called: it returns at once when the
\* counter is zero (line 267 then calls Close) and blocks otherwise
StopWait(s) ==
    /\ stops[s].pc = "wait"
    /\ stops' = [stops EXCEPT
                   ![s].pc = IF jobWaiter = 0 THEN "send" ELSE "waiting"]
    /\ UNCHANGED <<connLive, chStatus, channel, redialPc, consumerSeq,
                   entries, running, jobWaiter, loops, opObs,
                   runningMu, started>>

\* line 266: the goroutine that the last Done released runs again inside
\* Wait.  It returns when the WaitGroup is still at zero (line 267 then
\* calls Close); when a Start has called Add (line 181) since, Wait panics
\* with "sync: WaitGroup is reused before previous Wait has returned", and
\* the panic of a goroutine ends the process, every goroutine and every
\* caller with it
StopWaitReturns(s) ==
    /\ stops[s].pc = "released"
    /\ IF jobWaiter = 0
       THEN /\ stops' = [stops EXCEPT ![s].pc = "send"]
            /\ UNCHANGED <<loops, redialPc, runningMu>>
       ELSE /\ stops' = [t \in DOMAIN stops |->
                           [stops[t] EXCEPT !.pc = "crashed"]]
            /\ loops' = [l \in DOMAIN loops |->
                           [loops[l] EXCEPT !.pc = "crashed"]]
            /\ redialPc' = "crashed"
            /\ runningMu' = "crashed"
    /\ UNCHANGED <<connLive, chStatus, channel, consumerSeq, entries,
                   running, jobWaiter, opObs, started>>

\* line 268: cancel()
StopCancelCtx(s) ==
    /\ stops[s].pc = "cancelctx"
    /\ stops' = [stops EXCEPT ![s].pc = "done"]
    /\ UNCHANGED <<connLive, chStatus, channel, redialPc, consumerSeq,
                   entries, running, jobWaiter, loops, opObs,
                   runningMu, started>>

\* the context returned by the s-th Stop call is canceled
CtxDone(s) == s \in DOMAIN stops /\ stops[s].pc = "done"

\* the next AddFunc call of the program that registers Scenario
AddNext ==
    LET b == Scenario[(consumerSeq % Len(Scenario)) + 1]
    IN  AddFunc(b[1], b[2])

\* a step of the re-dial goroutine on its own, lines 49-74 (the receive of
\* the stop signal is a step it takes with Close)
redial ==
    \/ RedialNotified
    \/ RedialDefault
    \/ RedialInit
    \/ RedialClosePrevious
    \/ RedialOpen
    \/ RedialAssign

\* a step of the goroutine of loop l, lines 192-223, other than the receive
\* of a delivery
run(l) ==
    \/ RunCheck(l)
    \/ Consume(l)
    \/ \E o \in Outcomes : HandlerReturns(l, o)
    \/ StreamEnds(l)

\* a step of the shutdown goroutine of the s-th Stop, lines 262-269
shutdown(s) ==
    \/ StopCancels(s)
    \/ StopWait(s)
    \/ StopWaitReturns(s)
    \/ CloseSignal(s)
    \/ CloseChannel(s)
    \/ StopCancelCtx(s)

\* ------------------------------------------------------ specifications
\* The program registers the bindings of Scenario; AddFunc, Start and Stop
\* are called at any time and in any order, and the loops, the shutdown
\* tasks, the re-dial task and the broker take their steps in between.  An
\* AddFunc call made while a shutdown task ranges over the registry races
\* with it, and may end the process.
Next ==
    \/ AddNext
    \/ \E s \in DOMAIN stops : AddFuncRangeFatal(s)
    \/ Start
    \/ Stop
    \/ \E l \in DOMAIN loops : RunCheck(l)
    \/ \E l \in DOMAIN loops : Consume(l)
    \/ \E l \in DOMAIN loops : Deliver(l)
    \/ \E l \in DOMAIN loops, o \in Outcomes : HandlerReturns(l, o)
    \/ \E l \in DOMAIN loops : StreamEnds(l)
    \/ \E s \in DOMAIN stops : StopCancels(s)
    \/ \E s \in DOMAIN stops : StopWait(s)
    \/ \E s \in DOMAIN stops : StopWaitReturns(s)
    \/ \E s \in DOMAIN stops : CloseSignal(s)
    \/ \E s \in DOMAIN stops : CloseChannel(s)
    \/ \E s \in DOMAIN stops : StopCancelCtx(s)
    \/ RedialNotified
    \/ RedialDefault
    \/ RedialInit
    \/ RedialClosePrevious
    \/ RedialOpen
    \/ RedialAssign
    \/ BrokerClosesChannel
    \/ ShutdownCompletes

Spec == Init /\ [][Next]_vars

\* The channel supervisor on its own: callers issue channel-scoped
\* operations, the broker closes channels, the connection comes and goes,
\* and the supervisor is shut down (no binding is registered or started).
ChanNext ==
    \/ \E op \in Ops : PublicOp(op)
    \/ Stop
    \/ \E s \in DOMAIN stops : StopCancels(s)
    \/ \E s \in DOMAIN stops : StopWait(s)
    \/ \E s \in DOMAIN stops : CloseSignal(s)
    \/ \E s \in DOMAIN stops : CloseChannel(s)
    \/ \E s \in DOMAIN stops : StopCancelCtx(s)
    \/ RedialNotified
    \/ RedialDefault
    \/ RedialInit
    \/ RedialClosePrevious
    \/ RedialOpen
    \/ RedialAssign
    \/ BrokerClosesChannel
    \/ ConnectionLost
    \/ ShutdownCompletes

ChanSpec == Init /\ [][ChanNext]_vars

\* The supervisor used again after Stop: every binding is registered before
\* the first Start, Stop is called on a running supervisor only, and Start
\* may be called at any time, also after a Stop.
RestartNext ==
    \/ /\ ~running /\ stops = <<>>
       /\ AddNext
    \/ Start
    \/ /\ running
       /\ Stop
    \/ \E l \in DOMAIN loops : RunCheck(l)
    \/ \E l \in DOMAIN loops : Consume(l)
    \/ \E l \in DOMAIN loops : Deliver(l)
    \/ \E l \in DOMAIN loops, o \in Outcomes : HandlerReturns(l, o)
    \/ \E l \in DOMAIN loops : StreamEnds(l)
    \/ \E s \in DOMAIN stops : StopCancels(s)
    \/ \E s \in DOMAIN stops : StopWait(s)
    \/ \E s \in DOMAIN stops : StopWaitReturns(s)
    \/ \E s \in DOMAIN stops : CloseSignal(s)
    \/ \E s \in DOMAIN stops : CloseChannel(s)
    \/ \E s \in DOMAIN stops : StopCancelCtx(s)
    \/ RedialNotified
    \/ RedialDefault
    \/ RedialInit
    \/ RedialClosePrevious
    \/ RedialOpen
    \/ RedialAssign
    \/ BrokerClosesChannel
    \/ ShutdownCompletes

RestartSpec == Init /\ [][RestartNext]_vars

\* The documented lifecycle of a consumer supervisor: bindings are
\* registered, Start is called (a Start of the running supervisor returns
\* at line 176), and Stop is called once on the started supervisor, which
\* is not used again.  Connection.Channel() succeeds for the channels up to
\* MaxLifecycleChannels.
LifecycleNext ==
    \/ /\ ~running /\ stops = <<>>
       /\ AddNext
    \/ /\ stops = <<>>
       /\ Start
    \/ /\ running
       /\ Stop
    \/ \E l \in DOMAIN loops : RunCheck(l)
    \/ \E l \in DOMAIN loops : Consume(l)
    \/ \E l \in DOMAIN loops : Deliver(l)
    \/ \E l \in DOMAIN loops, o \in Outcomes : HandlerReturns(l, o)
    \/ \E l \in DOMAIN loops : StreamEnds(l)
    \/ \E s \in DOMAIN stops : StopCancels(s)
    \/ \E s \in DOMAIN stops : StopWait(s)
    \/ \E s \in DOMAIN stops : StopWaitReturns(s)
    \/ \E s \in DOMAIN stops : CloseSignal(s)
    \/ \E s \in DOMAIN stops : CloseChannel(s)
    \/ \E s \in DOMAIN stops : StopCancelCtx(s)
    \/ RedialNotified
    \/ RedialDefault
    \/ RedialInit
    \/ RedialClosePrevious
    \/ RedialOpen /\ Len(chStatus') <= MaxLifecycleChannels
    \/ RedialAssign
    \/ BrokerClosesChannel
    \/ ShutdownCompletes

LifecycleSpec == Init /\ [][LifecycleNext]_vars

\* Fair scheduling of every goroutine of the program (the loops, the
\* shutdown task, the re-dial task), and every handler invocation returns.
\* Nothing is assumed of the callers and of the broker: it need not deliver
\* and it need not close a channel.
FairLifecycleSpec ==
    /\ LifecycleSpec
    /\ WF_vars(redial)
    /\ \A l \in 1..MaxLoops : WF_vars(l \in DOMAIN loops /\ run(l))
    /\ \A s \in 1..MaxStops : WF_vars(s \in DOMAIN stops /\ shutdown(s))

\* Fair scheduling of the supervisor's own goroutines (the re-dial task and
\* the shutdown task); nothing is assumed of the callers and the broker,
\* except that a connection re-established again and again is not lost each
\* time before the attempt goes on, and that dialling and opening a channel
\* do not fail for ever.
FairChanSpec ==
    /\ ChanSpec
    /\ WF_vars(redial)
    /\ SF_vars(RedialInit /\ redialPc' = "close")
    /\ SF_vars(RedialClosePrevious /\ connLive)
    /\ SF_vars(RedialOpen /\ redialPc' = "assign")
    /\ \A s \in 1..MaxStops : WF_vars(s \in DOMAIN stops /\ shutdown(s))

\* A started supervisor that is not stopped: the bindings are registered,
\* Start is called, the loops consume, the broker closes channels and the
\* re-dial task replaces them.
ConsumeNext ==
    \/ /\ ~running
       /\ AddNext
    \/ /\ ~running
       /\ Start
    \/ \E l \in DOMAIN loops : RunCheck(l)
    \/ \E l \in DOMAIN loops : Consume(l)
    \/ \E l \in DOMAIN loops : Deliver(l)
    \/ \E l \in DOMAIN loops, o \in Outcomes : HandlerReturns(l, o)
    \/ \E l \in DOMAIN loops : StreamEnds(l)
    \/ RedialNotified
    \/ RedialDefault
    \/ RedialInit
    \/ RedialClosePrevious
    \/ RedialOpen
    \/ RedialAssign
    \/ BrokerClosesChannel
    \/ ShutdownCompletes

ConsumeSpec == Init /\ [][ConsumeNext]_vars

\* Fair scheduling of the loops and of the re-dial task, every handler
\* invocation returns, and opening a channel does not fail for ever (the
\* connection stays up here).  The broker need not deliver and need not
\* close a channel.
FairConsumeSpec ==
    /\ ConsumeSpec
    /\ WF_vars(redial)
    /\ SF_vars(RedialOpen /\ redialPc' = "assign")
    /\ \A l \in 1..MaxLoops : WF_vars(l \in DOMAIN loops /\ run(l))

\* The documented lifecycle, except that Stop is called again on the
\* supervisor whose first Stop has completed.
StopAgainNext ==
    \/ LifecycleNext
    \/ /\ stops # <<>> /\ CtxDone(1)
       /\ Stop

StopAgainSpec == Init /\ [][StopAgainNext]_vars

\* The callers seen a step at a time: a call of AddFunc, Start or Stop
\* first takes runningMu and then, holding it, does its work and returns.
\* The calls are made at any time and in any order; the loops, the shutdown
\* task and the re-dial task take their steps in between.
MutexNext ==
    \/ /\ consumerSeq < MaxEntries
       /\ Lock("AddFunc")
    \/ /\ Len(StartBody(running, jobWaiter, loops, entries).loops) <= MaxLoops
       /\ Lock("Start")
    \/ /\ Len(stops) < MaxStops
       /\ Lock("Stop")
    \/ LET b == Scenario[(consumerSeq % Len(Scenario)) + 1]
       IN  AddFuncReturns(b[1], b[2])
    \/ StartReturns
    \/ StopReturns
    \/ \E s \in DOMAIN stops : StopRangeFatal(s)
    \/ \E l \in DOMAIN loops : RunCheck(l)
    \/ \E l \in DOMAIN loops : Consume(l)
    \/ \E l \in DOMAIN loops : Deliver(l)
    \/ \E l \in DOMAIN loops, o \in Outcomes : HandlerReturns(l, o)
    \/ \E l \in DOMAIN loops : StreamEnds(l)
    \/ \E s \in DOMAIN stops : StopCancels(s)
    \/ \E s \in DOMAIN stops : StopWait(s)
    \/ \E s \in DOMAIN stops : StopWaitReturns(s)
    \/ \E s \in DOMAIN stops : CloseSignal(s)
    \/ \E s \in DOMAIN stops : CloseChannel(s)
    \/ \E s \in DOMAIN stops : StopCancelCtx(s)
    \/ RedialNotified
    \/ RedialDefault
    \/ RedialInit
    \/ RedialClosePrevious
    \/ RedialOpen
    \/ RedialAssign
    \/ BrokerClosesChannel
    \/ ShutdownCompletes

MutexSpec == Init /\ [][MutexNext]_vars

\* Registration: AddFunc is called with any queue and label, on this
\* supervisor and on others, while the channel supervisor New started runs
\* in the background (the supervisor is not started).
RegistryNext ==
    \/ \E q \in Queues, c \in Labels : AddFunc(q, c)
    \/ OtherAddFunc
    \/ RedialNotified
    \/ RedialDefault
    \/ RedialInit
    \/ RedialClosePrevious
    \/ RedialOpen
    \/ RedialAssign
    \/ BrokerClosesChannel
    \/ ConnectionLost
    \/ ShutdownCompletes

RegistrySpec == Init /\ [][RegistryNext]_vars

\* ---------------------------------------------------------------- claims
\* number of channels of this supervisor that are not closed
OpenChannels == Cardinality({c \in DOMAIN chStatus : ~IsClosed(chStatus, c)})

\* the last channel the supervisor can open within MaxChannels has been
\* installed in the field and is down as well
LastChannelDown == channel = MaxChannels /\ ~IsOpen(channel)

\* C7: after every closure of the channel, as long as Close has not been
\* called, the re-dial task eventually installs a live channel, that is, at
\* every time there is a later time at which the field holds a live channel
\* (or Close has been called, or the last of the MaxChannels channels has
\* been installed and has been closed too: opening one and not installing
\* it is not enough); whenever the task replaces the channel field, the
\* field that every public operation reads then holds the channel it has
\* just opened, the successor of the one replaced; and a failed attempt is
\* followed by another one or by the stop.
C7_RedialRestoresChannel ==
    /\ []<>(IsOpen(channel) \/ CloseCalled \/ LastChannelDown)
    /\ [][channel' # channel =>
            /\ channel' = Len(chStatus')
            /\ channel' = channel + 1
            /\ redialPc' = "wait"]_vars
    /\ [][(redialPc \in {"init", "open"} /\ redialPc' # redialPc) =>
            (redialPc' \in {"close", "assign", "retry"})]_vars
    /\ [][(redialPc = "retry" /\ redialPc' # redialPc) =>
            (redialPc' \in {"init", "done"})]_vars

\* C7 witness: the channel was closed and replaced, the replacement was
\* closed and replaced in turn, and an operation ran against the channel
\* installed last, before any Close
C7_Witness ==
    /\ channel = 3
    /\ chStatus[1] = "closed"
    /\ chStatus[2] = "closed"
    /\ chStatus[3] = "open"
    /\ opObs.op = "Publish"
    /\ opObs.ch = 3
    /\ opObs.st = "open"
    /\ ~CloseCalled

\* C8: at any time at most one channel opened by the supervisor is not
\* closed.
C8_AtMostOneOpenChannel == OpenChannels <= 1

\* C8 witness: a channel has been replaced, the old one is closed and the
\* new one is open
C8_Witness ==
    /\ Len(chStatus) >= 2
    /\ chStatus[Len(chStatus)] = "open"
    /\ chStatus[1] = "closed"

\* C9 as stated: before Close is called, every public operation runs
\* against a channel that is open.
C9_OperationsSeeLiveChannel ==
    (opObs.op # "none" /\ ~opObs.closeCalled) => opObs.st = "open"

\* C9 amended: every public operation runs against a channel object (the
\* field is never nil), and that object is the channel the supervisor
\* opened last or, while the re-dial task has opened a replacement and not
\* yet stored it, the one before it, which is closed; between a closure and
\* the successful re-dial the channel is not open and the operation fails.
C9_OperationsSeeNewestChannel ==
    opObs.op # "none" =>
        /\ opObs.st # "nil"
        /\ \/ opObs.ch = opObs.newest
           \/ opObs.ch + 1 = opObs.newest /\ opObs.st = "closed"

\* C9 witness: before any Close, an operation ran against the supervisor's
\* previous channel, which was closed, while the re-dial task had opened
\* the replacement and not yet stored it
C9_Witness ==
    /\ opObs.op = "Publish"
    /\ ~opObs.closeCalled
    /\ opObs.st = "closed"
    /\ opObs.ch + 1 = opObs.newest

\* C10: once the re-dial task has received the stop signal it has ended,
\* it opens no channel and never writes the channel field again; and once
\* Close has returned the supervisor's channel is closed.
C10_NoRedialAfterStop ==
    /\ [](CloseReturned => (redialPc = "done" /\ ~IsOpen(channel)
                            /\ IsClosed(chStatus, channel)))
    /\ [][redialPc = "done" =>
            /\ redialPc' = "done"
            /\ channel' = channel
            /\ Len(chStatus') = Len(chStatus)]_vars

\* C10 witness: the stop signal was taken while the channel was down (in
\* the outer wait with the notification pending, or in the retry loop), and
\* Close has returned
C10_Witness ==
    /\ redialPc = "done"
    /\ CloseReturned
    /\ Len(chStatus) = 1
    /\ chStatus[1] = "closed"
    /\ ~connLive

\* a delivery whose handler has finished
Handled(d) == d.outcome \in Outcomes

\* loop l finishes a handler invocation in this step
FinishesHandler(l) ==
    /\ l \in DOMAIN loops
    /\ loops[l].pc = "handling"
    /\ loops'[l].pc # "handling"

\* C3 as stated: a delivery whose handler returned an error or panicked is
\* rejected (with requeue) and never acknowledged, and its loop keeps
\* running.
C3_FailureIsRejected ==
    \A l \in DOMAIN loops :
        loops[l].dely.outcome \in {"err", "panic"} =>
            /\ loops[l].dely.rejects = 1
            /\ loops[l].dely.acks = 0
            /\ loops[l].pc \in {"recv", "handling"}

\* C4: a delivery gets no disposition while its handler runs and exactly
\* one when the handler has returned: one Ack and no Reject after success,
\* one Reject and no Ack after an error; a loop never moves on from a
\* delivery without having made that one call, and a disposition once made
\* is never followed by another on the same delivery.
C4_ExactlyOneDisposition ==
    /\ [](\A l \in DOMAIN loops :
            LET d == loops[l].dely
            IN  /\ d.outcome \in {"none", "running"} =>
                     d.acks = 0 /\ d.rejects = 0
                /\ Handled(d) => d.acks + d.rejects = 1
                /\ d.outcome = "ok" => d.acks = 1 /\ d.rejects = 0
                /\ d.outcome = "err" => d.acks = 0 /\ d.rejects = 1)
    /\ [][\A l \in DOMAIN loops :
            /\ FinishesHandler(l) =>
                 /\ Handled(loops'[l].dely)
                 /\ loops'[l].dely.acks + loops'[l].dely.rejects = 1
            /\ (Handled(loops[l].dely) /\ Handled(loops'[l].dely)) =>
                 loops'[l].dely = loops[l].dely]_vars

\* C4 witness: one loop has acknowledged a delivery whose handler
\* succeeded, another has rejected one whose handler returned an error
C4_Witness ==
    \E l, k \in DOMAIN loops :
        /\ loops[l].dely = [outcome |-> "ok", acks |-> 1, rejects |-> 0]
        /\ loops[k].dely = [outcome |-> "err", acks |-> 0, rejects |-> 1]

\* C5: whatever a handler does (return nil, return an error, panic), the
\* step that ends its invocation leaves its loop waiting for the next
\* delivery of the same stream, ends no loop and changes nothing of any
\* other loop; no loop is ever taken down by a panic.
C5_FailureIsContained ==
    /\ [](\A l \in DOMAIN loops : loops[l].pc # "crashed")
    /\ [][\A l \in DOMAIN loops :
            FinishesHandler(l) =>
                /\ loops'[l].pc = "recv"
                /\ loops'[l].stream = loops[l].stream
                /\ jobWaiter' = jobWaiter
                /\ running' = running
                /\ \A k \in DOMAIN loops : k # l => loops'[k] = loops[k]]_vars

\* C5 witness: a loop whose handler has panicked is back at receiving on
\* its open stream while another loop is handling a delivery of its own
C5_Witness ==
    \E l, k \in DOMAIN loops :
        /\ loops[l].dely.outcome = "panic"
        /\ loops[l].pc = "recv"
        /\ loops[l].stream = "open"
        /\ loops[k].pc = "handling"

\* C6: a Start that finds the flag down launches exactly one loop for
\* every registered identity, each at the head of run, and adds their
\* number to the wait group; while the flag is up no step (so no Start
\* call) launches a loop or adds to the wait group.
C6_StartLaunchesOnePerBinding ==
    /\ [][(~running /\ running') =>
            /\ Len(loops') = Len(loops) + Cardinality(DOMAIN entries)
            /\ jobWaiter' = jobWaiter + Cardinality(DOMAIN entries)
            /\ \A l \in DOMAIN loops : loops'[l] = loops[l]
            /\ \A id \in DOMAIN entries :
                 Cardinality({l \in DOMAIN loops' \ DOMAIN loops :
                                /\ loops'[l].csr = id
                                /\ loops'[l].queue = entries[id]
                                /\ loops'[l].pc = "check"}) = 1]_vars
    /\ [][running =>
            /\ Len(loops') = Len(loops)
            /\ jobWaiter' <= jobWaiter]_vars

\* C6 witness: two bindings were registered, Start has run, and there is
\* one live loop for each of the two identities
C6_Witness ==
    /\ running
    /\ Cardinality(DOMAIN entries) = 2
    /\ Len(loops) = 2
    /\ jobWaiter = 2
    /\ loops[1].csr # loops[2].csr
    /\ loops[1].pc = "recv"
    /\ loops[2].pc = "recv"

\* the context of the s-th Stop call is canceled in this step (line 268)
Resolves(s) == s \in DOMAIN stops /\ stops[s].pc # "done" /\ stops'[s].pc = "done"

\* C1 as stated: at the moment the context returned by a Stop call is
\* canceled, Cancel has been issued for every registered identity, every
\* loop launched by Start has exited and the supervisor's channel is
\* closed; and once a context is canceled no handler is invoked and no
\* handler invocation ends in an Ack or a Reject.
C1_ResolvedMeansShutDown ==
    /\ [][\A s \in DOMAIN stops :
            Resolves(s) =>
                /\ DOMAIN entries \subseteq stops[s].keys
                /\ \A l \in DOMAIN loops : loops[l].pc = "done"
                /\ IsClosed(chStatus, channel)]_vars
    /\ [][(\E s \in DOMAIN stops : CtxDone(s)) =>
            \A l \in DOMAIN loops :
                /\ ~FinishesHandler(l)
                /\ ~(loops[l].pc # "handling" /\ loops'[l].pc = "handling")]_vars

\* C2 as stated: once Stop has been called on a started supervisor, the
\* context it returned is eventually canceled.
C2_StopResolves == (Len(stops) > 0) ~> CtxDone(1)

\* ---------------------------------------------------------------- C11
\* C11: every AddFunc call takes a sequence number larger than every one
\* taken before, on whichever supervisor it is made; a call on this
\* supervisor adds exactly one identity to the registry, one that was not
\* there, and leaves the earlier entries as they were; every identity of
\* the registry is a label followed by "-" and a sequence number that was
\* handed out, and the registry is never larger than the number of calls.
C11_IdentitiesAreUnique ==
    /\ [][consumerSeq' # consumerSeq =>
            /\ consumerSeq' > consumerSeq
            /\ \/ UNCHANGED entries
               \/ \E id \in DOMAIN entries' \ DOMAIN entries :
                     /\ DOMAIN entries' = DOMAIN entries \cup {id}
                     /\ \A k \in DOMAIN entries : entries'[k] = entries[k]
                     /\ \E c \in Labels : id = Identity(c, consumerSeq')]_vars
    /\ [][entries' # entries =>
            Cardinality(DOMAIN entries') = Cardinality(DOMAIN entries) + 1]_vars
    /\ [](Cardinality(DOMAIN entries) <= consumerSeq)

\* two registrations with the same label are both in the registry
C11_Witness ==
    /\ consumerSeq = 2
    /\ DOMAIN entries = {"w-1", "w-2"}

\* ---------------------------------------------------------------- C12
\* C12: once Stop has been called, no step raises the running flag and no
\* step launches a consumption loop.
C12_LifecycleOnlyForward ==
    [][stops # <<>> =>
          /\ running' => running
          /\ Len(loops') = Len(loops)]_vars

\* ---------------------------------------------------------------- C13
\* C13: no two loops of one consumer identity have a handler invocation in
\* progress at the same time, and a loop receives a delivery only after the
\* delivery it received before has been acknowledged or rejected.
C13_OneAtATimePerBinding ==
    /\ [](\A l, m \in DOMAIN loops :
            l # m /\ loops[l].csr = loops[m].csr =>
               ~(loops[l].pc = "handling" /\ loops[m].pc = "handling"))
    /\ [][\A l \in DOMAIN loops :
            loops[l].pc # "handling" /\ loops'[l].pc = "handling" =>
               \/ loops[l].dely = NoDelivery
               \/ loops[l].dely.acks + loops[l].dely.rejects = 1]_vars

\* ---------------------------------------------------------------- C14
\* C14: a loop of a running supervisor that has no live stream (its stream
\* has ended with the channel, or its Consume failed) is eventually attached
\* to a stream again, unless the supervisor is stopped or the last channel
\* that can be opened (MaxChannels) is closed as well, that is, at every
\* time there is a later time at which the loop is attached; a stream that
\* is live is a stream of the channel the re-dial task installed last; and
\* a loop keeps its queue and its identity in every Consume it issues.
C14_LoopReattaches ==
    /\ \A l \in 1..MaxLoops :
          []<>((l \in DOMAIN loops /\ running) =>
                  \/ loops[l].stream = "open"
                  \/ Len(chStatus) = MaxChannels /\ ~IsOpen(channel))
    /\ [](\A l \in DOMAIN loops :
            loops[l].stream = "open" =>
               loops[l].ch = channel /\ IsOpen(channel))
    /\ [][\A l \in DOMAIN loops :
            /\ loops'[l].csr = loops[l].csr
            /\ loops'[l].queue = loops[l].queue]_vars

\* the stream of a loop on the first channel has ended, the supervisor is
\* running and the re-dial task has installed the second channel
C14_Witness ==
    \E l \in DOMAIN loops :
        /\ loops[l].stream = "ended" /\ loops[l].ch = 1
        /\ running
        /\ channel = 2 /\ IsOpen(channel)

\* ---------------------------------------------------------------- C15
\* C15: a loop ends only in a step that reads the running flag as false; a
\* failed Consume and an end of stream found with the flag up both take the
\* loop back to the head of run, from where the flag being up takes it to
\* the next Consume; and no loop is ended by a panic.
C15_LoopExitsOnlyWhenStopped ==
    /\ [][\A l \in DOMAIN loops :
            /\ loops[l].pc # "done" /\ loops'[l].pc = "done" => ~running
            /\ loops[l].pc = "consume" /\ loops'[l].pc # "consume" =>
                  loops'[l].pc \in {"recv", "check"}
            /\ loops[l].pc = "recv" /\ loops'[l].pc \notin {"recv", "handling"}
                  /\ running => loops'[l].pc = "check"
            /\ loops[l].pc = "check" /\ loops'[l].pc # "check" /\ running =>
                  loops'[l].pc = "consume"]_vars
    /\ [](\A l \in DOMAIN loops : loops[l].pc # "crashed")

\* a loop has ended, the flag being down, after the supervisor's first
\* channel was lost
C15_Witness ==
    /\ ~running
    /\ chStatus[1] # "open"
    /\ \E l \in DOMAIN loops : loops[l].pc = "done"

\* ---------------------------------------------------------------- C16
\* loop l takes a step that reads the running flag: line 193 (from the head
\* of run) or line 200 (after consume has returned nil)
LoopReadsRunning(l) ==
    \/ loops[l].pc = "check" /\ loops'[l].pc \in {"consume", "done"}
    \/ loops[l].pc = "recv" /\ loops'[l].pc \in {"check", "done"}

\* a caller holds runningMu and is about to write the running flag: Start
\* having found it false (line 178), Stop having found it true (line 255)
WriterHoldsMu ==
    \/ runningMu = "Start" /\ ~running
    \/ runningMu = "Stop" /\ running

\* C16: the running flag is written only by the caller that holds
\* runningMu, and no loop reads the flag while a caller holds the mutex to
\* write it.
C16_RunningGuardedByMutex ==
    /\ [][running' # running => WriterHoldsMu]_vars
    /\ [][\A l \in DOMAIN loops : LoopReadsRunning(l) => ~WriterHoldsMu]_vars

\* ---------------------------------------------------------------- C17
\* the positions of a shutdown task up to the send of line 83
BeforeSignal == {"cancel", "range", "wait", "waiting", "released", "send"}

\* C17: once the re-dial task has ended (it has taken the stop signal of
\* one Close), the shutdown task of any other Stop never gets past the send
\* of line 83 and its context is never canceled: at most one Stop's context
\* is ever canceled; every shutdown task that is past its Cancel range has
\* issued Cancel for every binding; and no goroutine panics.
C17_SecondStopBlocks ==
    /\ [][\A s \in DOMAIN stops :
            (redialPc = "done" /\ stops[s].pc \in BeforeSignal) =>
               (stops'[s].pc \in BeforeSignal)]_vars
    /\ [](\A s, t \in DOMAIN stops : CtxDone(s) /\ CtxDone(t) => s = t)
    /\ [](\A s \in DOMAIN stops :
            stops[s].pc \notin {"cancel", "range"} =>
               stops[s].keys = DOMAIN entries)
    /\ [](/\ \A l \in DOMAIN loops : loops[l].pc # "crashed"
          /\ \A s \in DOMAIN stops : stops[s].pc # "crashed"
          /\ redialPc # "crashed")

\* the first Stop has completed and the second, called afterwards, has
\* issued its Cancels, waited for the loops and is blocked in Close
C17_Witness ==
    /\ Len(stops) >= 2
    /\ CtxDone(1)
    /\ entries # << >>
    /\ stops[2].keys = DOMAIN entries
    /\ stops[2].pc = "send"
    /\ redialPc = "done"

\* ---------------------------------------------------------------- C18
\* Start has been called
Started == started

\* C18: once Start has been called no step changes the registry, and the
\* registered identities are those a loop was launched for.
C18_RegistryFrozenAfterStart ==
    /\ [][Started => entries' = entries]_vars
    /\ [](Started => DOMAIN entries = {loops[l].csr : l \in DOMAIN loops})

\* ---------------------------------------------------------------- C19
\* shutdown task s takes a turn of its range over the registry (lines
\* 263-265)
StopRanges(s) ==
    stops[s].pc \in {"cancel", "range"} /\ stops'[s] # stops[s]

\* C19: the registry is written only by a caller of AddFunc that holds
\* runningMu, Start ranges over it holding runningMu, and no shutdown task
\* ranges over it while an AddFunc caller holds the mutex to write it: none
\* takes a turn of its range then, and none is part way through its range
\* when the registry is written.
C19_RegistryAccessesExclusive ==
    /\ [][entries' # entries => runningMu = "AddFunc"]_vars
    /\ [][Len(loops') > Len(loops) => runningMu = "Start"]_vars
    /\ [][\A s \in DOMAIN stops : StopRanges(s) => runningMu # "AddFunc"]_vars
    /\ [][entries' # entries =>
            \A s \in DOMAIN stops : stops[s].pc # "range"]_vars

\* ---------------------------------------------------------------- C20
\* the re-dial task takes a step of initChannel (line 64)
RedialInitStep ==
    redialPc \in {"init", "close", "open", "assign"} /\ redialPc' # redialPc

\* C20: the channel field changes only in the step in which the re-dial task
\* assigns it in initChannel; a channel-scoped operation changes neither the field
\* nor any channel nor the connection; the steps of Close leave the field
\* as it is; and initChannel, run while the connection is live, leaves it
\* live and does not call Init() to replace it.
C20_RedialIsSoleWriter ==
    /\ [][channel' # channel =>
            RedialInitStep /\ redialPc = "assign"]_vars
    /\ [][opObs' # opObs =>
            channel' = channel /\ chStatus' = chStatus /\ connLive' = connLive]_vars
    /\ [][\A s \in DOMAIN stops :
            stops[s].pc \in {"send", "chclose"} /\ stops'[s].pc # stops[s].pc =>
               channel' = channel /\ connLive' = connLive]_vars
    /\ [][RedialInitStep /\ connLive =>
            /\ connLive'
            /\ \A initOk \in BOOLEAN :
                  ~initConnection(connLive, initOk).dialed]_vars

\* the re-dial task has replaced the channel, an operation has run against
\* the new channel and Close has returned: the field still holds it
C20_Witness ==
    /\ channel = 2
    /\ opObs.op # "none" /\ opObs.ch = 2
    /\ CloseReturned

====
